---- MODULE Spec2Model ----
(***************************************************************************)
(* Model of ccs/spline_functions.py: the basis constructor                 *)
(* spline_construction, the evaluator spline_eval012, the design-matrix    *)
(* builder spline_energy_model and the Twobody entity.                     *)
(*                                                                         *)
(* Numbers.  A Python float is modelled by an exact rational <<n, d>> in   *)
(* lowest terms with d > 0.  The IEEE results of a division by zero are    *)
(* <<1, 0>> (inf), <<-1, 0>> (-inf) and <<0, 0>> (nan).  The one place     *)
(* where the rounding of binary floating point decides the control flow is *)
(* the quotient (r - Rmin) / dx that both index resolutions take the       *)
(* ceiling of: it is modelled as the exact quotient times (1 + e * ulp),   *)
(* e in -1 .. 1 chosen by the environment, ulp = 1 / UlpInv.  All other    *)
(* arithmetic is exact.                                                    *)
(***************************************************************************)
EXTENDS Integers, Sequences, FiniteSets, TLC

\* ------------------------------------------------------------------ bounds
\* Largest knot count a Twobody is constructed with.
MaxKnots == 3
\* Most distances a distance table holds.
MaxDistances == 2
\* Reciprocal of the modelled unit roundoff of a float division (2^23).
UlpInv == 8388608

\* ------------------------------------------------------ program constants
\* np.around(..., decimals=5) in spline_energy_model.
Decimals == 5

\* --------------------------------------------------------------- rationals
Abs(n) == IF n < 0 THEN -n ELSE n

Sgn(n) == IF n < 0 THEN -1 ELSE IF n > 0 THEN 1 ELSE 0

RECURSIVE GCD(_, _)
GCD(m, n) == IF n = 0 THEN m ELSE GCD(n, m % n)

\* n / d as a float value: lowest terms, d > 0; inf, -inf, nan when d = 0.
Norm(n, d) ==
    IF d = 0 THEN <<Sgn(n), 0>>
    ELSE LET g == GCD(Abs(n), Abs(d))
         IN  IF d < 0 THEN <<(-n) \div g, (-d) \div g>> ELSE <<n \div g, d \div g>>

Num(n) == <<n, 1>>

Zero == Num(0)

IsFinite(x) == x[2] # 0

RAdd(x, y) == Norm(x[1] * y[2] + y[1] * x[2], x[2] * y[2])

RNeg(x) == <<-x[1], x[2]>>

RSub(x, y) == RAdd(x, RNeg(y))

RMul(x, y) == Norm(x[1] * y[1], x[2] * y[2])

RDiv(x, y) == Norm(x[1] * y[2], x[2] * y[1])

RLt(x, y) == x[1] * y[2] < y[1] * x[2]

RLe(x, y) == x[1] * y[2] <= y[1] * x[2]

RPow(x, k) == IF k = 2 THEN RMul(x, x) ELSE RMul(x, RMul(x, x))

\* np.ceil followed by int(): the least integer >= x.
Ceil(x) == -((-x[1]) \div x[2])

\* floor(n * 10^k / d) and the remainder, by long division.
RECURSIVE ScaledFloor(_, _, _)
ScaledFloor(n, d, k) ==
    IF k = 0 THEN <<n \div d, n % d>>
    ELSE LET p == ScaledFloor(n, d, k - 1)
         IN  <<p[1] * 10 + ((p[2] * 10) \div d), (p[2] * 10) % d>>

RECURSIVE Pow10(_)
Pow10(k) == IF k = 0 THEN 1 ELSE 10 * Pow10(k - 1)

\* np.around(x, decimals): to the nearest multiple of 10^-decimals, ties to even.
Around(x, decimals) ==
    IF ~IsFinite(x) THEN x
    ELSE LET p == ScaledFloor(x[1], x[2], decimals)
             m == IF 2 * p[2] > x[2] THEN p[1] + 1
                  ELSE IF 2 * p[2] < x[2] THEN p[1]
                  ELSE IF p[1] % 2 = 0 THEN p[1] ELSE p[1] + 1
         IN  Norm(m, Pow10(decimals))

\* ----------------------------------------------------------------- vectors
ZeroRow(cols) == [j \in 1..cols |-> Zero]

VAdd(u, w) == [j \in 1..Len(u) |-> RAdd(u[j], w[j])]

VScale(u, s) == [j \in 1..Len(u) |-> RMul(u[j], s)]

MScale(M, s) == [i \in 1..Len(M) |-> VScale(M[i], s)]

MDiv(M, s) == [i \in 1..Len(M) |-> [j \in 1..Len(M[i]) |-> RDiv(M[i][j], s)]]

\* np.delete(M, 0, 0) followed by np.vstack((M, np.zeros(cols))).
DropFirstAppendZero(M, cols) == Append(Tail(M), ZeroRow(cols))

\* ------------------------------------------------------ spline_construction
\* MatC without the np.roll: the identity left on the main diagonal.
MatC_Unrolled(rows, cols) ==
    [i \in 1..rows |-> [j \in 1..cols |->
       IF ((i - 1) * cols + (j - 1)) % (cols + 1) = 0 THEN Num(1) ELSE Zero]]

\* C: np.fill_diagonal(C, 1, wrap=True) writes the flat positions 0, cols+1,
\* 2(cols+1), ...; np.roll(C, 1, axis=1) moves column j to column j+1 cyclically.
MatC(rows, cols) ==
    LET filled == [i \in 1..rows |-> [j \in 1..cols |->
                     IF ((i - 1) * cols + (j - 1)) % (cols + 1) = 0 THEN Num(1) ELSE Zero]]
    IN  [i \in 1..rows |-> [j \in 1..cols |-> filled[i][((j - 2) % cols) + 1]]]

MatD(rows, cols, dx) ==
    LET raw == [i \in 1..rows |-> [j \in 1..cols |->
                  IF i = j - 1 THEN Num(1) ELSE IF i = j THEN Num(-1) ELSE Zero]]
    IN  MDiv(raw, dx)

\* MatB without B[j == cols - 1] = -0.5: the last column left at -1.
MatB_LastColumnKept(rows, cols, dx) ==
    LET raw == [i \in 1..rows |-> [j \in 1..cols |->
                  IF i < j THEN Num(-1) ELSE IF i = j THEN <<-1, 2>> ELSE Zero]]
    IN  MScale(DropFirstAppendZero(raw, cols), dx)

MatB(rows, cols, dx) ==
    LET raw == [i \in 1..rows |-> [j \in 1..cols |->
                  IF j = cols THEN <<-1, 2>>
                  ELSE IF i < j THEN Num(-1)
                  ELSE IF i = j THEN <<-1, 2>> ELSE Zero]]
    IN  MScale(DropFirstAppendZero(raw, cols), dx)

\* The value of tmp when the descending row loop writes row `row` (0-based).
RECURSIVE ATmp(_, _)
ATmp(row, rows) == IF row = rows - 1 THEN <<1, 3>> ELSE RAdd(ATmp(row + 1, rows), <<1, 2>>)

\* MatA without the np.delete / np.vstack row shift.
MatA_Unshifted(rows, cols, dx) ==
    LET raw == [i \in 1..rows |-> [j \in 1..cols |->
                  IF j = cols THEN ATmp(i - 1, rows)
                  ELSE IF j > i THEN Num(j - i)
                  ELSE IF i = j THEN <<1, 6>> ELSE Zero]]
    IN  MScale(MScale(raw, dx), dx)

MatA(rows, cols, dx) ==
    LET raw == [i \in 1..rows |-> [j \in 1..cols |->
                  IF j = cols THEN ATmp(i - 1, rows)
                  ELSE IF j > i THEN Num(j - i)
                  ELSE IF i = j THEN <<1, 6>> ELSE Zero]]
    IN  MScale(MScale(DropFirstAppendZero(raw, cols), dx), dx)

\* spline_construction(rows, cols, dx): the tuple it returns.
spline_construction(rows, cols, dx) ==
    [C |-> MatC(rows, cols), D |-> MatD(rows, cols, dx),
     B |-> MatB(rows, cols, dx), A |-> MatA(rows, cols, dx)]

\* ------------------------------------------------------------------ inputs
RminSet == {1, 2, 3}

RcutSet == {2}

KnotCounts == -1..MaxKnots

\* The basis of every grid the inputs describe, constructed once: the matrices
\* depend on (rows, cols, dx) alone.
BasisOf ==
    [k \in {<<n, n + 1, Norm(Rcut - Rmin, n)>> :
              n \in KnotCounts \cap (1..MaxKnots), Rmin \in RminSet, Rcut \in RcutSet}
       |-> spline_construction(k[1], k[2], k[3])]

Basis(rows, cols, dx) == BasisOf[<<rows, cols, dx>>]

\* -------------------------------------------------------- index resolution
\* The float (r - Rmin) / dx, with the rounding error e (in ulps) of the division.
Quotient(r, Rmin, dx, e) ==
    LET q == RDiv(RSub(r, Rmin), dx)
    IN  IF IsFinite(q) THEN RMul(q, <<UlpInv + e, UlpInv>>) ELSE q

\* spline_energy_model: int(np.ceil(np.around((r - Rmin) / dx, decimals=5))).
ModelIndex(r, Rmin, dx, e) == Ceil(Around(Quotient(r, Rmin, dx, e), Decimals))

\* EvalIndex with int(q) + 1 for the ceiling: int() truncates toward zero.
EvalIndex_Truncating(r, Rmin, dx, e) ==
    IF r = Rmin THEN 1
    ELSE LET q == Quotient(r, Rmin, dx, e)
         IN  Sgn(q[1]) * (Abs(q[1]) \div q[2]) + 1

\* spline_eval012: 1 if r == Rmin, else int(np.ceil((r - Rmin) / dx)).
EvalIndex(r, Rmin, dx, e) == IF r = Rmin THEN 1 ELSE Ceil(Quotient(r, Rmin, dx, e))

\* Python indexing seq[i]: a negative i counts from the end.
PyInRange(seq, i) == -Len(seq) <= i /\ i < Len(seq)

PyGet(seq, i) == IF i >= 0 THEN seq[i + 1] ELSE seq[Len(seq) + i + 1]

\* ------------------------------------------------------ spline_energy_model
\* [i for i in df[config, :] if i <= Rcut and i >= Rmin]
Qualifying(row, Rcut, Rmin) == SelectSeq(row, LAMBDA r : RLe(r, Rcut) /\ RLe(Rmin, r))

\* Accumulate with u = a + b + c_d + d: the running total overwritten.
Accumulate_Overwrite(u, r, index, x, M) ==
    LET delta == RSub(r, PyGet(x, index))
        a == PyGet(M.A, index - 1)
        b == VScale(PyGet(M.B, index - 1), delta)
        d == VScale(PyGet(M.D, index - 1), RDiv(RPow(delta, 3), Num(6)))
        c_d == VScale(PyGet(M.C, index - 1), RDiv(RPow(delta, 2), Num(2)))
    IN  VAdd(VAdd(VAdd(a, b), c_d), d)

\* The body of the distance loop for one r: a + b + c_d + d added to u.
Accumulate(u, r, index, x, M) ==
    LET delta == RSub(r, PyGet(x, index))
        a == PyGet(M.A, index - 1)
        b == VScale(PyGet(M.B, index - 1), delta)
        d == VScale(PyGet(M.D, index - 1), RDiv(RPow(delta, 3), Num(6)))
        c_d == VScale(PyGet(M.C, index - 1), RDiv(RPow(delta, 2), Num(2)))
    IN  VAdd(VAdd(VAdd(VAdd(u, a), b), c_d), d)

\* The distance loop of one configuration from its k-th qualifying distance on.
RECURSIVE RowFold(_, _, _, _, _, _)
RowFold(dists, idx, k, u, x, M) ==
    IF k > Len(dists) THEN u
    ELSE RowFold(dists, idx, k + 1, Accumulate(u, dists[k], idx[k], x, M), x, M)

RECURSIVE Flatten(_)
Flatten(ss) == IF ss = <<>> THEN <<>> ELSE Head(ss) \o Flatten(Tail(ss))

\* spline_energy_model(Rcut, Rmin, df, cols, dx, size, x): what it raises, the v it
\* returns and its local list `indices`.  e is the rounding error of the quotients.
spline_energy_model(Rcut, Rmin, df, cols, dx, size, x, e) ==
    LET M == Basis(cols - 1, cols, dx)
        dists == [config \in 1..size |-> Qualifying(df[config], Rcut, Rmin)]
        nan == \E config \in 1..size : \E k \in 1..Len(dists[config]) :
                  ~IsFinite(Quotient(dists[config][k], Rmin, dx, e))
        idx == [config \in 1..size |-> [k \in 1..Len(dists[config]) |->
                  ModelIndex(dists[config][k], Rmin, dx, e)]]
        outside == \E config \in 1..size : \E k \in 1..Len(dists[config]) :
                  ~PyInRange(x, idx[config][k]) \/ ~PyInRange(M.A, idx[config][k] - 1)
    IN  IF nan THEN [exc |-> "ValueError", v |-> <<>>, indices |-> <<>>]
        ELSE IF outside THEN [exc |-> "IndexError", v |-> <<>>, indices |-> <<>>]
        ELSE [exc |-> "none",
              v |-> [config \in 1..size |->
                       RowFold(dists[config], idx[config], 1, ZeroRow(cols), x, M)],
              indices |-> Flatten(idx)]

\* ------------------------------------------------------------------ Twobody
\* np.linspace(start, stop, num) for num >= 2: the last sample is stop itself.
linspace(start, stop, num) ==
    LET step == RDiv(RSub(stop, start), Num(num - 1))
    IN  [i \in 1..num |-> IF i = num THEN stop ELSE RAdd(start, RMul(Num(i - 1), step))]

NoTwobody ==
    [Rcut |-> Zero, Rmin |-> Zero, Nknots |-> 0, Dismat |-> <<>>, Nconfigs |-> 0,
     dx |-> Zero, cols |-> 0, interval |-> <<>>,
     C |-> <<>>, D |-> <<>>, B |-> <<>>, A |-> <<>>, v |-> <<>>]

Raised(name) == [exc |-> name, self |-> NoTwobody, indices |-> <<>>]

\* Twobody.__init__: the exception it raises, or the object it leaves.
Twobody(Dismat, Nconfigs, Rcut, Nknots, Rmin, e) ==
    IF Nknots = 0 THEN Raised("ZeroDivisionError")
    ELSE LET dx == RDiv(RSub(Rcut, Rmin), Num(Nknots))
             cols == Nknots + 1
         IN  IF cols < 1 THEN Raised("ValueError")
             ELSE LET interval == linspace(Rmin, Rcut, cols)
                      M == Basis(cols - 1, cols, dx)
                      em == spline_energy_model(Rcut, Rmin, Dismat, cols, dx, Nconfigs,
                                                interval, e)
                  IN  IF em.exc # "none" THEN Raised(em.exc)
                      ELSE [exc |-> "none",
                            self |-> [Rcut |-> Rcut, Rmin |-> Rmin, Nknots |-> Nknots,
                                      Dismat |-> Dismat, Nconfigs |-> Nconfigs,
                                      dx |-> dx, cols |-> cols, interval |-> interval,
                                      C |-> M.C, D |-> M.D, B |-> M.B, A |-> M.A,
                                      v |-> em.v],
                            indices |-> em.indices]

\* Twobody.get_v
get_v(self, e) ==
    spline_energy_model(self.Rcut, self.Rmin, self.Dismat, self.cols, self.dx,
                        self.Nconfigs, self.interval, e)

\* ----------------------------------------------------------- spline_eval012
\* The three return expressions, for the coefficients of one segment at offset dr.
Poly012(a, b, c, d, dr) ==
    [f0 |-> RAdd(a, RMul(dr, RAdd(b, RMul(dr,
                RAdd(RMul(<<1, 2>>, c), RDiv(RMul(d, dr), Num(3))))))),
     f1 |-> RAdd(b, RMul(dr, RAdd(c, RMul(RMul(<<1, 2>>, d), dr)))),
     f2 |-> RAdd(c, RMul(d, dr))]

Failed(name, index) == [exc |-> name, index |-> index, f0 |-> Zero, f1 |-> Zero, f2 |-> Zero]

\* spline_eval012(a, b, c, d, r, Rcut, Rmin, dx, x): what it raises or returns.
\* e is the rounding error of the quotient.
spline_eval012(a, b, c, d, r, Rcut, Rmin, dx, x, e) ==
    IF r # Rmin /\ dx = Zero THEN Failed("ZeroDivisionError", 0)
    ELSE LET index == EvalIndex(r, Rmin, dx, e)
         IN  IF index >= 1
             THEN IF ~PyInRange(x, index) \/ ~PyInRange(a, index - 1)
                  THEN Failed("IndexError", index)
                  ELSE LET dr == RSub(r, PyGet(x, index))
                           p == Poly012(PyGet(a, index - 1), PyGet(b, index - 1),
                                        PyGet(c, index - 1), PyGet(d, index - 1), dr)
                       IN  [exc |-> "none", index |-> index,
                            f0 |-> p.f0, f1 |-> p.f1, f2 |-> p.f2]
             ELSE Failed("ValueError", index)

\* Rounding errors of a float division, in ulps.
Drift == {-1, 0, 1}

\* Shapes (configurations, distances per configuration) of a distance table:
\* those holding at most MaxDistances distances.
Shapes ==
    {sh \in (0..MaxDistances) \X (0..MaxDistances) : sh[1] * sh[2] <= MaxDistances}

\* Distances on the half-knot lattice of the grid, from `below` half steps under
\* Rmin to one half step over Rcut.
Palette(Rmin, Rcut, Nknots, below) ==
    LET n == IF Nknots < 1 THEN 1 ELSE Nknots
    IN  {RAdd(Num(Rmin), RMul(Num(j), RDiv(Num(Rcut - Rmin), Num(2 * n)))) :
           j \in (-below)..(2 * n + 1)}

Tables(P) ==
    UNION {[1..sh[1] -> [1..sh[2] -> P]] : sh \in Shapes}

\* Fitted coefficient arrays: one value per segment, base + step * segment.
CoefArray(n, base, step) == [i \in 1..n |-> Num(base + step * (i - 1))]

CoefBases == {0, 2}

\* ------------------------------------------------------------------- state
VARIABLES
    built,      \* whether the last Twobody(...) call left an object
    twb,        \* that object's fields (NoTwobody when there is none)
    exc,        \* the exception the last constructor or get_v call raised, or "none"
    indices,    \* the local list `indices` of the last spline_energy_model run
    ret,        \* the value the last get_v() call returned
    call,       \* the arguments of the last spline_eval012 call
    res         \* what that call raised or returned

vars == <<built, twb, exc, indices, ret, call, res>>

NoCall == [a |-> <<>>, b |-> <<>>, c |-> <<>>, d |-> <<>>, r |-> Zero, e |-> 0]

NoRes == Failed("nocall", 0)

Init ==
    /\ built = FALSE
    /\ twb = NoTwobody
    /\ exc = "none"
    /\ indices = <<>>
    /\ ret = <<>>
    /\ call = NoCall
    /\ res = NoRes

\* Twobody(name, Dismat, Nconfigs, Rcut, Nknots, Rmin), in a fresh program.
TwobodyInit ==
    /\ ~built /\ exc = "none"
    /\ \E Rmin \in RminSet, Rcut \in RcutSet, Nknots \in KnotCounts, e \in Drift :
        \E Dismat \in Tables(Palette(Rmin, Rcut, Nknots, 1)) :
          LET t == Twobody(Dismat, Len(Dismat), Num(Rcut), Nknots, Num(Rmin), e)
          IN  /\ built' = (t.exc = "none")
              /\ twb' = t.self
              /\ exc' = t.exc
              /\ indices' = t.indices
              /\ ret' = <<>>
              /\ UNCHANGED <<call, res>>

\* twb.get_v(): recomputes and returns v, leaving the object as it is.
GetV ==
    /\ built /\ ret = <<>>
    /\ \E e \in Drift :
         LET g == get_v(twb, e)
         IN  /\ ret' = g.v
             /\ exc' = g.exc
             /\ indices' = g.indices
    /\ UNCHANGED <<built, twb, call, res>>

Next == TwobodyInit \/ GetV

Spec == Init /\ [][Next]_vars

\* spline_eval012 on the grid of the Twobody, with fitted coefficient arrays.  The
\* function is pure: a behaviour holds one call, whose arguments and outcome the
\* state keeps.
SplineEval ==
    /\ built /\ res = NoRes
    /\ \E ba \in CoefBases, bb \in CoefBases, bc \in CoefBases, bd \in CoefBases,
          e \in Drift :
         \E r \in Palette(twb.Rmin[1], twb.Rcut[1], twb.Nknots, 3) :
           LET n == twb.cols - 1
               a == CoefArray(n, ba, 1)
               b == CoefArray(n, bb + 1, 2)
               c == CoefArray(n, bc - 1, 3)
               d == CoefArray(n, bd, 0)
           IN  /\ call' = [a |-> a, b |-> b, c |-> c, d |-> d, r |-> r, e |-> e]
               /\ res' = spline_eval012(a, b, c, d, r, twb.Rcut, twb.Rmin, twb.dx,
                                        twb.interval, e)
    /\ UNCHANGED <<built, twb, exc, indices, ret>>

\* The evaluator is used on the grid of a Twobody built over an empty table.
InitEval ==
    /\ \E Rmin \in RminSet, Rcut \in RcutSet, Nknots \in KnotCounts :
         LET t == Twobody(<<>>, 0, Num(Rcut), Nknots, Num(Rmin), 0)
         IN  /\ t.exc = "none"
             /\ built = TRUE
             /\ twb = t.self
             /\ exc = "none"
             /\ indices = t.indices
    /\ ret = <<>>
    /\ call = NoCall
    /\ res = NoRes

NextEval == SplineEval

SpecEval == InitEval /\ [][NextEval]_vars

\* ================================================================== claims
Valid == built /\ RLt(Zero, twb.dx)

Called == res # NoRes

\* ---------------------------------------------------------------------- C1
\* C1: every segment index spline_energy_model resolves for a distance in
\* [Rmin, Rcut] lies in 1 .. cols-1, so no basis row or knot is read at a
\* wrapped-around or out-of-range position.
C1_IndexInRange ==
    built => \A k \in 1..Len(indices) : 1 <= indices[k] /\ indices[k] <= twb.cols - 1

\* ---------------------------------------------------------------------- C2
\* Row i of M (1-based) evaluated at its left knot, delta = -dx, in the order of
\* the derivative: 0 the value, 1 the first and 2 the second derivative.
AtLeftKnot(order, i) ==
    LET dx == twb.dx
        mdx == RNeg(dx)
        half == RDiv(RMul(dx, dx), Num(2))
        sixth == RDiv(RPow(mdx, 3), Num(6))
    IN  IF order = 0
        THEN VAdd(VAdd(VAdd(twb.A[i], VScale(twb.B[i], mdx)), VScale(twb.C[i], half)),
                  VScale(twb.D[i], sixth))
        ELSE IF order = 1
        THEN VAdd(VAdd(twb.B[i], VScale(twb.C[i], mdx)), VScale(twb.D[i], half))
        ELSE VAdd(twb.C[i], VScale(twb.D[i], mdx))

\* C2: at every interior knot the segment to its right, evaluated at its left end,
\* reproduces the value, first and second derivative of the segment to its left
\* at its right end, as identities between basis rows.
C2_TwiceContinuous ==
    Valid =>
      \A i \in 2..(twb.cols - 1) :
        /\ AtLeftKnot(0, i) = twb.A[i - 1]
        /\ AtLeftKnot(1, i) = twb.B[i - 1]
        /\ AtLeftKnot(2, i) = twb.C[i - 1]

C2_Witness ==
    /\ Valid /\ twb.cols >= 3 /\ twb.dx # Num(1)
    /\ twb.A[1] # twb.A[2] /\ twb.B[1] # twb.B[2]
    /\ AtLeftKnot(0, 2) = twb.A[1]

\* ---------------------------------------------------------------------- C3
\* The polynomial of the segment the last call resolved, at offset t.
SegmentPoly(t) ==
    Poly012(PyGet(call.a, res.index - 1), PyGet(call.b, res.index - 1),
            PyGet(call.c, res.index - 1), PyGet(call.d, res.index - 1), t)

\* Simpson's rule over [t - h, t + h], exact for integrands of degree <= 3.
Simpson(lo, mid, hi, h) ==
    RMul(RDiv(h, Num(3)), RAdd(RAdd(lo, RMul(Num(4), mid)), hi))

\* C3: the returned first derivative is the derivative in dr of the returned
\* value, and the returned second derivative that of the first: the increments of
\* the value (first derivative) over [dr - h, dr + h] are the integrals of the
\* first (second) derivative.
C3_Derivatives ==
    (Called /\ res.exc = "none") =>
      LET dr == RSub(call.r, PyGet(twb.interval, res.index))
      IN  \A h \in {<<1, 2>>, Num(1)} :
            LET lo == SegmentPoly(RSub(dr, h))
                hi == SegmentPoly(RAdd(dr, h))
            IN  /\ RSub(hi.f0, lo.f0) = Simpson(lo.f1, res.f1, hi.f1, h)
                /\ RSub(hi.f1, lo.f1) = Simpson(lo.f2, res.f2, hi.f2, h)

\* ---------------------------------------------------------------------- C4
\* C4: no Twobody exists whose parameters are invalid (Rcut <= Rmin or
\* Nknots < 1): the constructor raised instead.
C4_InvalidRejected ==
    built => (RLt(twb.Rmin, twb.Rcut) /\ twb.Nknots >= 1)

\* ---------------------------------------------------------------------- C5
\* C5: on a grid with dx > 0, a call with r < Rmin raises ValueError and returns
\* no triple.
C5_BelowRminFails ==
    (Called /\ Valid /\ RLt(call.r, twb.Rmin)) => res.exc = "ValueError"

C5_Witness ==
    /\ Called /\ Valid
    /\ RLt(call.r, twb.Rmin) /\ RLt(RSub(twb.Rmin, twb.dx), call.r)
    /\ res.exc = "ValueError"

\* ---------------------------------------------------------------------- C6
\* C6: for r in (Rmin, Rcut] the evaluator resolves the index that
\* spline_energy_model resolves for the same r.
C6_SameIndex ==
    (Called /\ Valid /\ RLt(twb.Rmin, call.r) /\ RLe(call.r, twb.Rcut)) =>
      res.index = ModelIndex(call.r, twb.Rmin, twb.dx, call.e)

\* ---------------------------------------------------------------------- C7
\* The row spline_energy_model builds for a configuration holding r alone.
SingleRow(r) ==
    spline_energy_model(twb.Rcut, twb.Rmin, <<<<r>>>>, twb.cols, twb.dx, 1,
                        twb.interval, 0).v[1]

RECURSIVE SumOfSingleRows(_)
SumOfSingleRows(dists) ==
    IF dists = <<>> THEN ZeroRow(twb.cols)
    ELSE VAdd(SingleRow(Head(dists)), SumOfSingleRows(Tail(dists)))

\* C7: every row of v is the elementwise sum of the single-distance rows of the
\* configuration's qualifying distances, and the zero row of length cols when
\* none qualifies.
C7_Additive ==
    built =>
      /\ Len(twb.v) = twb.Nconfigs
      /\ \A config \in 1..twb.Nconfigs :
           twb.v[config] =
             SumOfSingleRows(Qualifying(twb.Dismat[config], twb.Rcut, twb.Rmin))

C7_Witness ==
    /\ built
    /\ \E config \in 1..twb.Nconfigs :
         LET q == Qualifying(twb.Dismat[config], twb.Rcut, twb.Rmin)
         IN  /\ Len(q) = 2
             /\ q[1] # q[2]
             /\ SingleRow(q[1]) # ZeroRow(twb.cols)
             /\ SingleRow(q[2]) # ZeroRow(twb.cols)
             /\ twb.v[config] # SingleRow(q[1])

\* ---------------------------------------------------------------------- C8
\* C8: a call at the knot x[k], 1 <= k <= cols-1, resolves index k and returns
\* (a[k-1], b[k-1], c[k-1]).
C8_ExactAtKnots ==
    (Called /\ Valid) =>
      \A k \in 1..(twb.cols - 1) :
        call.r = PyGet(twb.interval, k) =>
          /\ res.exc = "none"
          /\ res.index = k
          /\ res.f0 = PyGet(call.a, k - 1)
          /\ res.f1 = PyGet(call.b, k - 1)
          /\ res.f2 = PyGet(call.c, k - 1)

\* ---------------------------------------------------------------------- C9
RECURSIVE RowSum(_)
RowSum(row) == IF row = <<>> THEN Zero ELSE RAdd(Head(row), RowSum(Tail(row)))

HasShape(M, rows, cols) == Len(M) = rows /\ \A i \in 1..rows : Len(M[i]) = cols

\* C9: on a grid with dx > 0 the four matrices have shape (cols-1, cols); C is
\* the identity shifted one column to the right; D holds -1/dx on the diagonal,
\* 1/dx on the first super-diagonal, 0 elsewhere, and its rows sum to 0.
C9_ShapeAndBands ==
    Valid =>
      LET rows == twb.cols - 1
          cols == twb.cols
          inv == RDiv(Num(1), twb.dx)
      IN  /\ HasShape(twb.C, rows, cols) /\ HasShape(twb.D, rows, cols)
          /\ HasShape(twb.B, rows, cols) /\ HasShape(twb.A, rows, cols)
          /\ \A i \in 1..rows : \A j \in 1..cols :
               /\ twb.C[i][j] = (IF j = i + 1 THEN Num(1) ELSE Zero)
               /\ twb.D[i][j] = (IF j = i THEN RNeg(inv) ELSE IF j = i + 1 THEN inv ELSE Zero)
          /\ \A i \in 1..rows : RowSum(twb.D[i]) = Zero

C9_Witness ==
    /\ Valid /\ twb.cols = MaxKnots + 1 /\ twb.dx # Num(1)
    /\ twb.C[2][3] = Num(1)
    /\ twb.D[2][2] = RNeg(RDiv(Num(1), twb.dx))

\* --------------------------------------------------------------------- C10
\* C10: the last row of A and of B is zero, and a configuration whose only
\* qualifying distance is Rcut gets the zero row.
C10_ZeroAtRcut ==
    built =>
      /\ twb.A[twb.cols - 1] = ZeroRow(twb.cols)
      /\ twb.B[twb.cols - 1] = ZeroRow(twb.cols)
      /\ \A config \in 1..twb.Nconfigs :
           Qualifying(twb.Dismat[config], twb.Rcut, twb.Rmin) = <<twb.Rcut>>
             => twb.v[config] = ZeroRow(twb.cols)

C10_Witness ==
    /\ Valid /\ twb.cols >= 3
    /\ \E config \in 1..twb.Nconfigs :
         /\ Len(twb.Dismat[config]) = 2
         /\ Qualifying(twb.Dismat[config], twb.Rcut, twb.Rmin) = <<twb.Rcut>>
         /\ twb.v[config] = ZeroRow(twb.cols)

====
